---- MODULE Spec2Model ----
(***************************************************************************)
(* es-wait: the polling supervisor Waiter.wait() (src/es_wait/_base.py),   *)
(* its exception accumulator, and the check() strategies of the concrete   *)
(* waiters (exists.py, health.py, relocate.py, restore.py, snapshot.py,    *)
(* task.py, ilm.py).                                                       *)
(*                                                                         *)
(* Time is counted in ticks, TicksPerSec ticks to the second.  A remote    *)
(* call is an input of check(): the response is drawn from the responses   *)
(* the client library can give (a value, a TransportError, another error). *)
(***************************************************************************)
EXTENDS Integers, Sequences, FiniteSets, TLC

\* ------------------------------------------------------------------ bounds
TicksPerSec == 2
MaxPause == 2
MaxTimeout == 3
MaxExceptions == 2
MaxCheckTime == 1
MaxCalls == 4
MaxWaits == 1
NumChunks == 2
MaxFrequency == 2

\* ------------------------------------------------------- program constants
\* the sentinel of "no timeout": the literal -1 (seconds) of Waiter.wait
NoTimeout == 0 - TicksPerSec
\* default of the max_stuck_count parameter of IlmPhase.check/phase_stuck
MaxStuckCount == 3

Kinds == {"Exists", "Health", "Relocate", "Restore", "Snapshot", "Task",
          "IlmPhase", "IlmStep"}

\* ------------------------------------------------------------- exceptions
\* A message is modelled by the text that precedes the interpolated
\* exception_count_msg and by the two numbers interpolated in it
\* (n = allowed = -1 when the message holds no exception_count_msg).
Msg(prefix, n, allowed) == [prefix |-> prefix, n |-> n, allowed |-> allowed]

\* Waiter.exception_count_msg:
\* '<exceptions_raised> exceptions raised out of <max_exceptions> allowed'
exception_count_msg(er, me) == Msg("", er, me)

\* An exception object: its class, message and the fields its class keeps.
Exc(type, msg, count, elapsed, tmo, errors) ==
    [type |-> type, msg |-> msg, count |-> count, elapsed |-> elapsed,
     timeout |-> tmo, errors |-> errors]

NoMsg == Msg("none", -1, -1)
NoExc == Exc("none", NoMsg, -1, -1, -1, <<>>)
Returned == Exc("return", NoMsg, -1, -1, -1, <<>>)

\* exceptions.py: the classes derived from EsWaitException
EsWaitExceptionTypes == {"EsWaitException", "EsWaitFatal", "ExceptionCount",
                         "IlmWaitError"}

ExceptionCount(msg, count, errors) == Exc("ExceptionCount", msg, count, -1, -1, errors)
EsWaitFatal(msg, elapsed, errors) == Exc("EsWaitFatal", msg, -1, elapsed, -1, errors)
EsWaitTimeout(msg, elapsed, tmo) == Exc("EsWaitTimeout", msg, -1, elapsed, tmo, <<>>)
\* an exception of a class this package does not define
Foreign(type) == Exc(type, Msg(type, -1, -1), -1, -1, -1, <<>>)
IlmWaitError(text) == Exc("IlmWaitError", Msg(text, -1, -1), -1, -1, -1, <<>>)

\* ------------------------------------------------------------ accumulator
\* A recorded failure: the class of the error and the order of its recording
\* (history is never cleared, so the n-th recorded error has seq = n).
Failure(type, ex) == [seq |-> Len(ex) + 1, type |-> type]

\* Waiter.add_exception: self._exceptions.append(value)
add_exception(ex, value) == Append(ex, value)

\* too_many with the comparison off by one
too_many_gt(er, me) == er > me

\* Waiter.too_many_exceptions: the condition under which it raises
too_many(er, me) == er >= me

\* Waiter.too_many_exceptions: the ExceptionCount it raises
too_many_exceptions(er, me, ex) ==
    ExceptionCount(Msg("check_failed", er, me), er, ex)

\* The part of self that check() reads and writes:
\*   er = exceptions_raised, ex = _exceptions,
\*   sc = stuck_count, adv = advanced (IlmPhase only)
Self(er, ex, sc, adv) == [er |-> er, ex |-> ex, sc |-> sc, adv |-> adv]

\* an except-clause counting one failure twice
Inc_twice(s) == [s EXCEPT !.er = @ + 2]
\* self.exceptions_raised += 1
Inc(s) == [s EXCEPT !.er = @ + 1]
\* self.add_exception(err)
Add(s, type) == [s EXCEPT !.ex = add_exception(@, Failure(type, @))]
\* Record without the increment of exceptions_raised
Record_add_only(s, type) == Add(s, type)

\* the pair of statements that most except-clauses execute
Record(s, type) == Add(Inc(s), type)

\* The result of one check() call: it returned True or False or raised exc;
\* s is self afterwards; remote tells whether a client request was issued and
\* moved whether client.ilm.move_to_step was called.
Result(ret, exc, s, remote, moved) ==
    [ret |-> ret, exc |-> exc, s |-> s, remote |-> remote, moved |-> moved]
RetTrue(s) == Result("True", NoExc, s, TRUE, FALSE)
RetFalse(s) == Result("False", NoExc, s, TRUE, FALSE)
Raise(exc, s) == Result("raise", exc, s, TRUE, FALSE)
\* self.too_many_exceptions() raising at the start of check()
RaiseCount(s, me) ==
    Result("raise", too_many_exceptions(s.er, me, s.ex), s, FALSE, FALSE)

\* ---------------------------------------------------------------- responses
\* What the remote calls of one check() give.
Resp(t, ph, complete, chunks) ==
    [t |-> t, phase |-> ph, complete |-> complete, chunks |-> chunks]
Simple(t) == Resp(t, "", FALSE, <<>>)

\* ------------------------------------------------------------------- Exists
ExistsResponses == {Simple(t) : t \in {"true", "false", "TransportError", "ApiError"}}

\* Exists.check with too_many_exceptions() called after the failure is recorded
ExistsCheckLate(s, me, r) ==
    CASE r.t = "true" -> RetTrue(s)
      [] r.t = "false" -> RetFalse(s)
      [] r.t = "TransportError" ->
           LET s2 == Record(s, "TransportError")
           IN IF too_many(s2.er, me)
              THEN Result("raise", too_many_exceptions(s2.er, me, s2.ex), s2, TRUE, FALSE)
              ELSE RetFalse(s2)
      [] OTHER -> Raise(Foreign(r.t), s)

\* Exists.check
ExistsCheck(s, me, r) ==
    IF too_many(s.er, me) THEN RaiseCount(s, me)
    ELSE CASE r.t = "true" -> RetTrue(s)
           [] r.t = "false" -> RetFalse(s)
           [] r.t = "TransportError" -> RetFalse(Record(s, "TransportError"))
           [] OTHER -> Raise(Foreign(r.t), s)

\* ----------------------------------------------------------------- IlmPhase
\* phase_by_num with the numbers of hot and warm exchanged
phase_by_num_swapped(ph) ==
    CASE ph = "undef" -> 0
      [] ph = "new" -> 1
      [] ph = "hot" -> 3
      [] ph = "warm" -> 2
      [] ph = "cold" -> 4
      [] ph = "frozen" -> 5
      [] ph = "delete" -> 6
      [] OTHER -> 0

\* IlmPhase.phase_by_num
phase_by_num(ph) ==
    CASE ph = "undef" -> 0
      [] ph = "new" -> 1
      [] ph = "hot" -> 2
      [] ph = "warm" -> 3
      [] ph = "cold" -> 4
      [] ph = "frozen" -> 5
      [] ph = "delete" -> 6
      [] OTHER -> 0

TargetPhases == {"new", "warm"}
ExplainPhases == {"new", "hot", "warm"}

\* "explain_movefail": explain data as for "explain", and a move_to_step call,
\* if this check() issues one, raises; what the explain data of a check() that
\* issues the call hold is of no effect, so one such response stands for all
IlmPhaseResponses ==
    {Resp("explain", ph, c, <<>>) : ph \in ExplainPhases, c \in BOOLEAN}
    \cup {Resp("explain_movefail", "hot", TRUE, <<>>)}
    \cup {Simple(t) : t \in {"empty", "nophase", "NotFoundError",
                             "Exception", "KeyError"}}

\* IlmPhase.phase_gte, phase_lt
phase_gte(cur, target) == phase_by_num(cur) >= phase_by_num(target)
phase_lt(cur, target) == phase_by_num(cur) < phase_by_num(target)

\* reached_phase taking a phase it has seen complete before for reached
reached_phase_seen(s, target, r) ==
    IF phase_gte(r.phase, target) /\ target = "new" THEN RetTrue(s)
    ELSE IF phase_lt(r.phase, target) /\ r.complete
         THEN IF s.sc >= 1 THEN RetTrue(s) ELSE RetFalse([s EXCEPT !.sc = @ + 1])
    ELSE IF phase_lt(r.phase, target) THEN RetFalse(s)
    ELSE RetTrue(s)

\* reached_phase counting consecutive observations: any other observation
\* clears stuck_count
reached_phase_consecutive(s, target, r) ==
    IF phase_gte(r.phase, target) /\ target = "new" THEN RetTrue([s EXCEPT !.sc = 0])
    ELSE IF phase_lt(r.phase, target) /\ r.complete
         THEN RetFalse([s EXCEPT !.sc = @ + 1])
    ELSE IF phase_lt(r.phase, target) THEN RetFalse([s EXCEPT !.sc = 0])
    ELSE RetTrue([s EXCEPT !.sc = 0])

\* IlmPhase.reached_phase, with explain data r
reached_phase(s, target, r) ==
    IF phase_gte(r.phase, target) /\ target = "new" THEN RetTrue(s)
    ELSE IF phase_lt(r.phase, target) /\ r.complete
         THEN RetFalse([s EXCEPT !.sc = @ + 1])
    ELSE IF phase_lt(r.phase, target) THEN RetFalse(s)
    ELSE RetTrue(s)

\* stuck with a strict comparison
stuck_gt(sc, max_stuck_count) == sc > max_stuck_count

\* IlmPhase.phase_stuck: does this call reach the stuck branch
stuck(sc, max_stuck_count) == sc >= max_stuck_count

\* the manual advance leaving exceptions_raised as it was
advance_keep_count(s) == [s EXCEPT !.adv = TRUE, !.sc = 0]

\* IlmPhase.phase_stuck: self after the manual advance
advance(s) == [s EXCEPT !.adv = TRUE, !.sc = 0, !.er = 0]

\* IlmPhase.phase_stuck, not advanced before: client.ilm.move_to_step, which
\* no except clause surrounds, then the assignments to self
move_to_step(s, r) ==
    IF r.t = "explain_movefail"
    THEN Result("raise", Foreign("ApiError"), s, TRUE, TRUE)
    ELSE Result("False", NoExc, advance(s), TRUE, TRUE)

\* IlmPhase.check with too_many_exceptions() called after phase_stuck()
IlmPhaseCheckStuckFirst(s, me, target, max_stuck_count, r) ==
    IF r.t \in {"explain", "explain_movefail"} /\ stuck(s.sc, max_stuck_count) /\ ~s.adv
    THEN move_to_step(s, r)
    ELSE IF too_many(s.er, me) THEN RaiseCount(s, me)
    ELSE IF r.t = "NotFoundError" THEN Raise(Foreign("NotFoundError"), s)
    ELSE IF r.t = "Exception" THEN Raise(IlmWaitError("no_ilm_information"), s)
    ELSE IF r.t = "KeyError" THEN Raise(Foreign("KeyError"), s)
    ELSE IF r.t \in {"empty", "nophase"} THEN RetFalse(Inc(s))
    ELSE IF stuck(s.sc, max_stuck_count) THEN Raise(IlmWaitError("still_stuck"), s)
    ELSE reached_phase(s, target, r)

\* IlmPhase.phase_stuck(max_stuck_count), with the explain data r: it raises,
\* or returns True after the manual advance, or returns False
phase_stuck(s, max_stuck_count, r) ==
    IF stuck(s.sc, max_stuck_count)
    THEN IF s.adv THEN Raise(IlmWaitError("still_stuck"), s)
         ELSE LET m == move_to_step(s, r)
              IN IF m.ret = "raise" THEN m ELSE [m EXCEPT !.ret = "True"]
    ELSE Result("False", NoExc, s, TRUE, FALSE)

\* IlmPhase.check returning False when stuck again after the advance
IlmPhaseCheckKeepPolling(s, me, target, max_stuck_count, r) ==
    IF too_many(s.er, me) THEN RaiseCount(s, me)
    ELSE IF r.t = "NotFoundError" THEN Raise(Foreign("NotFoundError"), s)
    ELSE IF r.t = "Exception" THEN Raise(IlmWaitError("no_ilm_information"), s)
    ELSE IF r.t = "KeyError" THEN Raise(Foreign("KeyError"), s)
    ELSE IF r.t \in {"empty", "nophase"} THEN RetFalse(Inc(s))
    ELSE IF stuck(s.sc, max_stuck_count)
         THEN IF s.adv THEN RetFalse(s) ELSE move_to_step(s, r)
    ELSE reached_phase(s, target, r)

\* IlmPhase.check, with the response r of ilm.explain_lifecycle
IlmPhaseCheck(s, me, target, max_stuck_count, r) ==
    IF too_many(s.er, me) THEN RaiseCount(s, me)
    \* IndexLifecycle.get_explain_data
    ELSE IF r.t = "NotFoundError" THEN Raise(Foreign("NotFoundError"), s)
    ELSE IF r.t = "Exception" THEN Raise(IlmWaitError("no_ilm_information"), s)
    ELSE IF r.t = "KeyError" THEN Raise(Foreign("KeyError"), s)
    \* IlmPhase.has_explain
    ELSE IF r.t \in {"empty", "nophase"} THEN RetFalse(Inc(s))
    \* if self.phase_stuck(max_stuck_count): return False
    ELSE LET ps == phase_stuck(s, max_stuck_count, r)
         IN IF ps.ret = "raise" THEN ps
            ELSE IF ps.ret = "True" THEN [ps EXCEPT !.ret = "False"]
            ELSE reached_phase(s, target, r)

\* ------------------------------------------------------------------ IlmStep
IlmStepResponses ==
    {Resp("explain", "", c, <<>>) : c \in BOOLEAN}
    \cup {Simple(t) : t \in {"index_missing", "TransportError", "NotFoundError",
                             "Exception", "KeyError"}}

\* IlmStep.check, with the responses of indices.exists and ilm.explain_lifecycle
IlmStepCheck(s, me, r) ==
    IF too_many(s.er, me) THEN RaiseCount(s, me)
    \* client.indices.exists raising: no except clause around the call
    ELSE IF r.t = "TransportError" THEN Raise(Foreign("TransportError"), s)
    ELSE IF r.t = "index_missing" THEN RetFalse(Record(s, "IlmWaitError"))
    \* self.phase_complete -> self.explain -> get_explain_data
    ELSE IF r.t = "NotFoundError" THEN Raise(Foreign("NotFoundError"), s)
    ELSE IF r.t = "Exception" THEN Raise(IlmWaitError("no_ilm_information"), s)
    ELSE IF r.t = "KeyError" THEN Raise(Foreign("KeyError"), s)
    ELSE IF r.complete THEN RetTrue(s) ELSE RetFalse(s)

\* ------------------------------------------------------------------- Health
HealthResponses ==
    {Simple(t) : t \in {"match", "nomatch", "TransportError", "KeyError", "ApiError"}}

\* Health.check, with the response of cluster.health; healthchk_result raises
\* KeyError when a key of check_for is not in the response
HealthCheck(s, me, r) ==
    IF too_many(s.er, me) THEN RaiseCount(s, me)
    ELSE CASE r.t = "match" -> RetTrue(s)
           [] r.t = "nomatch" -> RetFalse(s)
           [] r.t = "TransportError" -> RetFalse(Record(s, "TransportError"))
           [] OTHER -> Raise(Foreign(r.t), s)

\* ----------------------------------------------------------------- Relocate
RelocateResponses ==
    {Simple(t) : t \in {"STARTED", "INITIALIZING", "noshards", "TransportError",
                        "KeyErrorTable", "KeyErrorState", "ApiError"}}

\* Relocate.check with Relocate.finished_state and Relocate.routing_table,
\* with the response of cluster.state
RelocateCheck(s, me, r) ==
    IF too_many(s.er, me) THEN RaiseCount(s, me)
    ELSE CASE r.t = "STARTED" -> RetTrue(s)
           [] r.t = "INITIALIZING" -> RetFalse(s)
           \* routing_table returns {} and finished_state returns False
           [] r.t = "noshards" -> RetFalse(s)
           [] r.t = "TransportError" -> RetFalse(Record(s, "TransportError"))
           [] r.t = "KeyErrorTable" -> RetFalse(Record(s, "KeyError"))
           \* a shard without 'state': caught in finished_state
           [] r.t = "KeyErrorState" -> RetFalse(Record(s, "KeyError"))
           [] OTHER -> Raise(Foreign(r.t), s)

\* ----------------------------------------------------------------- Snapshot
SnapshotResponses ==
    {Simple(t) : t \in {"SUCCESS", "PARTIAL", "FAILED", "OTHER", "IN_PROGRESS",
                        "Exception", "KeyError"}}

\* Snapshot.check taking a FAILED snapshot for one that is not complete
SnapshotCheckFailedIsFalse(s, me, r) ==
    IF too_many(s.er, me) THEN RaiseCount(s, me)
    ELSE CASE r.t = "Exception" -> RetFalse(Record(s, "ValueError"))
           [] r.t = "KeyError" -> Raise(Foreign("KeyError"), s)
           [] r.t \in {"IN_PROGRESS", "FAILED"} -> RetFalse(s)
           [] OTHER -> RetTrue(s)

\* Snapshot.check with Snapshot.snapstate, with the response of snapshot.get;
\* snapstate turns every exception into ValueError, check() catches ValueError;
\* a response without ['snapshots'][0]['state'] raises in check() itself
SnapshotCheck(s, me, r) ==
    IF too_many(s.er, me) THEN RaiseCount(s, me)
    ELSE CASE r.t = "Exception" -> RetFalse(Record(s, "ValueError"))
           [] r.t = "KeyError" -> Raise(Foreign("KeyError"), s)
           [] r.t = "IN_PROGRESS" -> RetFalse(s)
           [] OTHER -> RetTrue(s)

\* --------------------------------------------------------------------- Task
\* phase = "reindex_failures": a reindex task whose response lists failures
TaskResponses ==
    {Resp("task", ph, c, <<>>) : ph \in {"", "reindex_failures"}, c \in BOOLEAN}
    \cup {Simple("Exception")}

\* Task.check looking at the completion before the failures
TaskCheckCompleteFirst(s, me, r) ==
    IF too_many(s.er, me) THEN RaiseCount(s, me)
    ELSE IF r.t = "Exception" THEN RetFalse(Record(s, "Exception"))
    ELSE IF r.complete THEN RetTrue(s)
    ELSE IF r.phase = "reindex_failures" THEN RetFalse(Record(s, "ValueError"))
    ELSE RetFalse(s)

\* Task.check with Task.reindex_check and Task.task_complete, with the
\* response of tasks.get
TaskCheck(s, me, r) ==
    IF too_many(s.er, me) THEN RaiseCount(s, me)
    ELSE IF r.t = "Exception" THEN RetFalse(Record(s, "Exception"))
    ELSE IF r.phase = "reindex_failures" THEN RetFalse(Record(s, "ValueError"))
    ELSE IF r.complete THEN RetTrue(s) ELSE RetFalse(s)

\* ------------------------------------------------------------------ Restore
\* get_recovery treats a TransportError and any other Exception of the call alike;
\* "missing": a response that lacks an index of the chunk and whose shards
\* are all in stage DONE
ChunkResponses == {"DONE", "INIT", "missing", "empty", "TransportError", "KeyError"}
RestoreResponses ==
    {Resp("recovery", "", FALSE, c) : c \in [1..NumChunks -> ChunkResponses]}

\* Restore.check, second loop: the stages of the shards of the indices found
RECURSIVE RestoreStages(_, _, _)
RestoreStages(s, chunks, i) ==
    IF i > Len(chunks) THEN RetTrue(s)
    ELSE IF chunks[i] = "KeyError" THEN Raise(Foreign("KeyError"), s)
    ELSE IF chunks[i] = "INIT" THEN RetFalse(s)
    ELSE RestoreStages(s, chunks, i + 1)

\* Restore.check, first loop, with Restore.get_recovery: the response of
\* indices.recovery for each chunk of index_list_chunks
RECURSIVE RestoreChunks(_, _, _)
RestoreChunks(s, chunks, i) ==
    IF i > Len(chunks) THEN RestoreStages(s, chunks, 1)
    \* get_recovery catches the error, records it and returns {}
    ELSE IF chunks[i] = "TransportError"
         THEN RetFalse(Inc(Add(s, chunks[i])))
    ELSE IF chunks[i] = "empty" THEN RetFalse(Inc(s))
    ELSE RestoreChunks(s, chunks, i + 1)

\* Restore.check (it does not call too_many_exceptions)
RestoreCheck(s, me, r) == RestoreChunks(s, r.chunks, 1)

\* ----------------------------------------------------------------- dispatch
\* the values the user passes for max_stuck_count to IlmPhase.check; wait()
\* always calls check() with the default
StuckCounts(k) == IF k = "IlmPhase" THEN {1, MaxStuckCount} ELSE {MaxStuckCount}

Responses(k) ==
    CASE k = "Exists" -> ExistsResponses
      [] k = "Health" -> HealthResponses
      [] k = "Relocate" -> RelocateResponses
      [] k = "Restore" -> RestoreResponses
      [] k = "Snapshot" -> SnapshotResponses
      [] k = "Task" -> TaskResponses
      [] k = "IlmPhase" -> IlmPhaseResponses
      [] k = "IlmStep" -> IlmStepResponses

\* self.check() of the waiter of kind k
Check(k, s, me, target, max_stuck_count, r) ==
    CASE k = "Exists" -> ExistsCheck(s, me, r)
      [] k = "Health" -> HealthCheck(s, me, r)
      [] k = "Relocate" -> RelocateCheck(s, me, r)
      [] k = "Restore" -> RestoreCheck(s, me, r)
      [] k = "Snapshot" -> SnapshotCheck(s, me, r)
      [] k = "Task" -> TaskCheck(s, me, r)
      [] k = "IlmPhase" -> IlmPhaseCheck(s, me, target, max_stuck_count, r)
      [] k = "IlmStep" -> IlmStepCheck(s, me, r)

\* --------------------------------------------------------------- supervisor
\* should_log without the test for zero
should_log_at_zero(elapsed, log_frequency) ==
    (elapsed \div TicksPerSec) % log_frequency = 0

\* should_log counting the second that has begun
should_log_begun(elapsed, log_frequency) ==
    IF elapsed \div TicksPerSec = 0 THEN FALSE
    ELSE (elapsed \div TicksPerSec + 1) % log_frequency = 0

\* TimeTracker.should_log; elapsed in ticks, log_frequency in seconds
should_log(elapsed, log_frequency) ==
    IF elapsed \div TicksPerSec = 0 THEN FALSE
    ELSE (elapsed \div TicksPerSec) % log_frequency = 0

\* timed_out taking the timeout 0 for no timeout as well
timed_out_zero_disables(tmo, elapsed) ==
    (tmo # NoTimeout) /\ (tmo # 0) /\ (elapsed >= tmo)

\* timed_out with every negative timeout disabling the test
timed_out_negative_disables(tmo, elapsed) == (tmo >= 0) /\ (elapsed >= tmo)

\* timed_out with a strict comparison
timed_out_strict(tmo, elapsed) == (tmo # NoTimeout) /\ (elapsed > tmo)

\* timed_out without the test of the sentinel
timed_out_no_sentinel(tmo, elapsed) == elapsed >= tmo

\* timed_out with the test of the sentinel inverted
timed_out_only_sentinel(tmo, elapsed) == (tmo = NoTimeout) /\ (elapsed >= tmo)

\* Waiter.wait: the timeout test of an iteration
timed_out(tmo, elapsed) == (tmo # NoTimeout) /\ (elapsed >= tmo)

\* Handle without the except clause for ExceptionCount, which then falls to
\* the clause for EsWaitException
Handle_generic(exc, elapsed, er, me, ex) ==
    IF exc.type \in EsWaitExceptionTypes
    THEN EsWaitFatal(Msg("error_occurred", -1, -1), elapsed, ex)
    ELSE exc

\* Waiter.wait: what the except clauses make of an exception raised by check()
Handle(exc, elapsed, er, me, ex) ==
    IF exc.type = "ExceptionCount"
    THEN EsWaitFatal(exception_count_msg(er, me), elapsed, ex)
    ELSE IF exc.type \in EsWaitExceptionTypes
    THEN EsWaitFatal(Msg("error_occurred", -1, -1), elapsed, ex)
    ELSE exc

\* Decide going back to check() without the sleep
Decide_skip_sleep(ret, tmo, el, dhr) ==
    IF ret = "True" THEN [pc |-> "done", out |-> "return"]
    ELSE IF timed_out(tmo, el)
    THEN [pc |-> IF dhr THEN "report" ELSE "done", out |-> "timeout"]
    ELSE [pc |-> "check", out |-> "none"]

\* Decide with the success test lacking its break
Decide_no_break(ret, tmo, el, dhr) ==
    IF ret = "True"
    THEN [pc |-> IF timed_out(tmo, el) THEN "done" ELSE "sleep", out |-> "return"]
    ELSE IF timed_out(tmo, el)
    THEN [pc |-> IF dhr THEN "report" ELSE "done", out |-> "timeout"]
    ELSE [pc |-> "sleep", out |-> "none"]

\* Decide with the timeout test ahead of the success test
Decide_timeout_first(ret, tmo, el, dhr) ==
    IF timed_out(tmo, el)
    THEN [pc |-> IF dhr THEN "report" ELSE "done", out |-> "timeout"]
    ELSE IF ret = "True" THEN [pc |-> "done", out |-> "return"]
    ELSE [pc |-> "sleep", out |-> "none"]

\* Decide with the health report fetched whatever do_health_report is
Decide_report_always(ret, tmo, el, dhr) ==
    IF ret = "True" THEN [pc |-> "done", out |-> "return"]
    ELSE IF timed_out(tmo, el) THEN [pc |-> "report", out |-> "timeout"]
    ELSE [pc |-> "sleep", out |-> "none"]

\* Decide with the timeout test made on the elapsed time of one tick earlier
Decide_stale_elapsed(ret, tmo, el, dhr) ==
    IF ret = "True" THEN [pc |-> "done", out |-> "return"]
    ELSE IF timed_out(tmo, el - 1)
    THEN [pc |-> IF dhr THEN "report" ELSE "done", out |-> "timeout"]
    ELSE [pc |-> "sleep", out |-> "none"]

\* Waiter.wait: where an iteration goes once check() has returned ret at
\* elapsed time el: the success test (break), the timeout test (break), or on
\* to the progress log and the sleep; after the loop, a wait() that did not
\* succeed fetches the health report if do_health_report is set
Decide(ret, tmo, el, dhr) ==
    IF ret = "True" THEN [pc |-> "done", out |-> "return"]
    ELSE IF timed_out(tmo, el)
    THEN [pc |-> IF dhr THEN "report" ELSE "done", out |-> "timeout"]
    ELSE [pc |-> "sleep", out |-> "none"]

\* AfterRaise with the except clause for IlmWaitError going on to the sleep
AfterRaise_retry(exc) == IF exc.type = "IlmWaitError" THEN "sleep" ELSE "done"

\* Waiter.wait: where the except clauses leave wait(); every clause ends in
\* a raise, and an exception no clause catches leaves wait() as well
AfterRaise(exc) == "done"

\* Step with the progress log followed by a continue, which skips the sleep
Step_log_continue(ret, tmo, el, dhr, f) ==
    LET go == Decide(ret, tmo, el, dhr)
        log == go.pc = "sleep" /\ should_log(el, f)
    IN [pc |-> IF log THEN "check" ELSE go.pc, out |-> go.out, log |-> log]

\* Waiter.wait: an iteration once check() has returned ret, with the progress
\* log: tracker.should_log is evaluated only on the way to the sleep
Step(ret, tmo, el, dhr, f) ==
    LET go == Decide(ret, tmo, el, dhr)
    IN [pc |-> go.pc, out |-> go.out, log |-> go.pc = "sleep" /\ should_log(el, f)]

\* what client.health_report() and utils.health_report make of the report:
\* a KeyError is caught inside utils.health_report, a TransportError in wait()
ReportResponses == {"green", "red", "KeyError", "TransportError", "ApiError",
                    "AttributeError"}
report_caught(hr) == hr \in {"green", "red", "KeyError", "TransportError"}

\* Waiter.wait after the loop: what leaves wait() once the health report gave hr
Report(out, hr) == IF report_caught(hr) THEN out ELSE Foreign(hr)

\* the remote calls of a check() that gets the response r fail, or give a
\* response that lacks what check() looks for
Failed(k, r) ==
    IF k = "Restore"
    THEN \E i \in 1..Len(r.chunks) : r.chunks[i] \in {"TransportError", "KeyError", "empty"}
    ELSE r.t \in {"TransportError", "ApiError", "Exception", "KeyError",
                  "KeyErrorTable", "KeyErrorState", "empty", "nophase"}

\* -------------------------------------------------------------------- state
VARIABLES
    kind,               \* the class of the waiter
    pause, timeout, max_exceptions, do_health_report,
    phase,              \* IlmPhase: the target phase
    exceptions_raised, exceptions,
    stuck_count, advanced,
    pc,                 \* "idle", or the position of wait(): "check", "sleep",
                        \* "report", "done"
    frequency,          \* the argument of wait()
    now,                \* the clock
    start_time,         \* tracker.start_time
    outcome,            \* how wait() ended: Returned or the exception raised
    nchecks, nsleeps, nlogs, nreports,   \* of the current wait()
    last,               \* the last check() or too_many_exceptions() call
    sawTrue,            \* a check() of the current wait() returned True
    allFailed,          \* the remote calls of every check() of the current
                        \* wait() failed
    drift,              \* a check() of the current wait() took time
    calls, waits, moves, \* check() calls, wait() calls, move_to_step calls
    ext,                \* the state of the cluster, when it stays as it is:
                        \* the response every check() gets
    twin                \* a second waiter of the same configuration, whose
                        \* wait() gets the same responses at the same times

vars == <<kind, pause, timeout, max_exceptions, do_health_report, phase,
          exceptions_raised, exceptions, stuck_count, advanced, pc, frequency,
          now, start_time, outcome, nchecks, nsleeps, nlogs, nreports, last,
          sawTrue, allFailed, drift, calls, waits, moves, ext, twin>>

config == <<kind, pause, timeout, max_exceptions, do_health_report, phase>>
perwait == <<frequency, start_time, outcome, nchecks, nsleeps, nlogs, nreports,
             sawTrue, allFailed, drift>>

self == Self(exceptions_raised, exceptions, stuck_count, advanced)

\* TimeTracker.elapsed at clock value t
Elapsed(t) == t - start_time

\* a call of check() or too_many_exceptions(): exceptions_raised at entry, what
\* it returned or raised, whether it issued a client request, whether that
\* request failed and whether it called move_to_step
\* msc is the max_stuck_count the call was given
Call(op, before, res, failed, msc) ==
    [op |-> op, entry_er |-> before.er, ret |-> res.ret, exc |-> res.exc,
     remote |-> res.remote, failed |-> res.remote /\ failed, moved |-> res.moved,
     msc |-> msc]
NoCall == [op |-> "none", entry_er |-> 0, ret |-> "None", exc |-> NoExc,
           remote |-> FALSE, failed |-> FALSE, moved |-> FALSE, msc |-> 0]

\* a cluster whose state is not held fixed
NoExt == [r |-> Simple("none"), msc |-> 0]

\* the waiter that no second wait() runs on
NoTwin == [pc |-> "none", frequency |-> 0, s |-> Self(0, <<>>, 0, FALSE),
           now |-> 0, start_time |-> 0, outcome |-> NoExc,
           nchecks |-> 0, nsleeps |-> 0, nlogs |-> 0, nreports |-> 0]

\* Waiter.__init__ and the constructors of the subclasses
Init ==
    /\ kind \in Kinds
    /\ pause \in 1..MaxPause
    /\ timeout \in NoTimeout..MaxTimeout
    /\ max_exceptions \in 1..MaxExceptions
    /\ do_health_report = (kind = "Health")
    /\ phase \in (IF kind = "IlmPhase" THEN TargetPhases ELSE {""})
    /\ exceptions_raised = 0
    /\ exceptions = <<>>
    /\ stuck_count = 0
    /\ advanced = FALSE
    /\ pc = "idle"
    /\ frequency = 1
    /\ now = 0
    /\ start_time = 0
    /\ outcome = NoExc
    /\ nchecks = 0 /\ nsleeps = 0 /\ nlogs = 0 /\ nreports = 0
    /\ last = NoCall
    /\ sawTrue = FALSE
    /\ allFailed = FALSE
    /\ drift = FALSE
    /\ calls = 0 /\ waits = 0 /\ moves = 0
    /\ twin = NoTwin
    /\ ext = NoExt

\* the assignments a check() call makes to self
Apply(res) ==
    /\ exceptions_raised' = res.s.er
    /\ exceptions' = res.s.ex
    /\ stuck_count' = res.s.sc
    /\ advanced' = res.s.adv
    /\ moves' = moves + (IF res.moved THEN 1 ELSE 0)
    /\ calls' = calls + 1

\* Iteration with the timeout test applied to a check() that raised
Iteration_timeout_first(s, st, f, out, r, t) ==
    LET res == Check(kind, s, max_exceptions, phase, MaxStuckCount, r)
        el == t - st
    IN IF res.ret = "raise" /\ timed_out(timeout, el)
       THEN [res |-> res, pc |-> IF do_health_report THEN "report" ELSE "done",
             log |-> FALSE,
             outcome |-> EsWaitTimeout(Msg("timeout", -1, -1), el, timeout)]
       ELSE IF res.ret = "raise"
       THEN [res |-> res, pc |-> AfterRaise(res.exc), log |-> FALSE,
             outcome |-> Handle(res.exc, el, res.s.er, max_exceptions, res.s.ex)]
       ELSE LET go == Step(res.ret, timeout, el, do_health_report, f)
            IN [res |-> res, pc |-> go.pc, log |-> go.log,
                outcome |-> CASE go.out = "return" -> Returned
                              [] go.out = "timeout" ->
                                   EsWaitTimeout(Msg("timeout", -1, -1), el, timeout)
                              [] OTHER -> out]

\* Waiter.wait, one iteration up to the sleep, of the waiter in state s whose
\* tracker started at st and was given frequency f: check() gets the response
\* r and returns at time t, then the except clauses, the success test, the
\* timeout test and the progress log; out is the outcome so far
Iteration(s, st, f, out, r, t) ==
    LET res == Check(kind, s, max_exceptions, phase, MaxStuckCount, r)
        el == t - st
    IN IF res.ret = "raise"
       THEN [res |-> res, pc |-> AfterRaise(res.exc), log |-> FALSE,
             outcome |-> Handle(res.exc, el, res.s.er, max_exceptions, res.s.ex)]
       ELSE LET go == Step(res.ret, timeout, el, do_health_report, f)
            IN [res |-> res, pc |-> go.pc, log |-> go.log,
                outcome |-> CASE go.out = "return" -> Returned
                              [] go.out = "timeout" ->
                                   EsWaitTimeout(Msg("timeout", -1, -1), el, timeout)
                              [] OTHER -> out]

\* wait() clearing the failure bookkeeping at entry
WaitStartWith_reset(f) ==
    /\ pc \in {"idle", "done"}
    /\ frequency' = f
    /\ start_time' = now
    /\ outcome' = NoExc
    /\ nchecks' = 0 /\ nsleeps' = 0 /\ nlogs' = 0 /\ nreports' = 0
    /\ sawTrue' = FALSE
    /\ allFailed' = TRUE
    /\ drift' = FALSE
    /\ waits' = waits + 1
    /\ pc' = "check"
    /\ exceptions_raised' = 0
    /\ exceptions' = <<>>
    /\ UNCHANGED <<config, stuck_count, advanced, now, last, calls, moves>>

\* Waiter.wait, up to the loop, called with frequency f: a fresh TimeTracker
WaitStartWith(f) ==
    /\ pc \in {"idle", "done"}
    /\ frequency' = f
    /\ start_time' = now
    /\ outcome' = NoExc
    /\ nchecks' = 0 /\ nsleeps' = 0 /\ nlogs' = 0 /\ nreports' = 0
    /\ sawTrue' = FALSE
    /\ allFailed' = TRUE
    /\ drift' = FALSE
    /\ waits' = waits + 1
    /\ pc' = "check"
    /\ UNCHANGED <<config, exceptions_raised, exceptions, stuck_count, advanced,
                   now, last, calls, moves>>

WaitStart ==
    /\ waits < MaxWaits
    /\ \E f \in 1..MaxFrequency : WaitStartWith(f)
    /\ UNCHANGED <<ext, twin>>

\* Waiter.wait, one iteration up to the sleep, whose check() gets the
\* response r and takes the time d
WaitCheckWith(r, d) ==
    /\ pc = "check"
    /\ LET it == Iteration(self, start_time, frequency, outcome, r, now + d)
       IN /\ Apply(it.res)
          /\ now' = now + d
          /\ drift' = (drift \/ d > 0)
          /\ last' = Call("check", self, it.res, Failed(kind, r), MaxStuckCount)
          /\ nchecks' = nchecks + 1
          /\ sawTrue' = (sawTrue \/ it.res.ret = "True")
          /\ allFailed' = (allFailed /\ Failed(kind, r))
          /\ outcome' = it.outcome
          /\ pc' = it.pc
          /\ nlogs' = nlogs + (IF it.log THEN 1 ELSE 0)
    /\ UNCHANGED <<config, frequency, start_time, nsleeps, nreports, waits>>

WaitCheck ==
    /\ calls < MaxCalls
    /\ \E r \in Responses(kind), d \in 0..MaxCheckTime : WaitCheckWith(r, d)
    /\ UNCHANGED <<ext, twin>>

\* Waiter.wait: sleep(self.pause)
Sleep ==
    /\ pc = "sleep"
    /\ now' = now + pause
    /\ nsleeps' = nsleeps + 1
    /\ pc' = "check"
    /\ UNCHANGED <<config, exceptions_raised, exceptions, stuck_count, advanced,
                   frequency, start_time, outcome, nchecks, nlogs, nreports,
                   last, sawTrue, allFailed, drift, calls, waits, moves>>

WaitSleep == Sleep /\ UNCHANGED <<ext, twin>>

\* Waiter.wait after the loop, do_health_report set: the health report, which
\* gives hr, then raise timeout
WaitReportWith(hr) ==
    /\ pc = "report"
    /\ outcome' = Report(outcome, hr)
    /\ nreports' = nreports + 1
    /\ pc' = "done"
    /\ UNCHANGED <<config, exceptions_raised, exceptions, stuck_count, advanced,
                   frequency, now, start_time, nchecks, nsleeps, nlogs, last,
                   sawTrue, allFailed, drift, calls, waits, moves>>

WaitReport ==
    /\ \E hr \in ReportResponses : WaitReportWith(hr)
    /\ UNCHANGED <<ext, twin>>

\* check(max_stuck_count=msc) called by the user of the waiter, outside
\* wait(), which gets the response r
DirectCheckWith(r, msc) ==
    /\ pc \in {"idle", "done"}
    /\ LET res == Check(kind, self, max_exceptions, phase, msc, r)
       IN /\ Apply(res)
          /\ last' = Call("check", self, res, Failed(kind, r), msc)
    /\ UNCHANGED <<config, pc, perwait, now, waits>>

DirectCheck ==
    /\ calls < MaxCalls
    /\ \E r \in Responses(kind), msc \in StuckCounts(kind) : DirectCheckWith(r, msc)
    /\ UNCHANGED <<ext, twin>>

\* too_many_exceptions() called by the user of the waiter, outside check()
DirectTooMany ==
    /\ pc \in {"idle", "done"}
    /\ last' = Call("too_many_exceptions", self,
                    IF too_many(exceptions_raised, max_exceptions)
                    THEN RaiseCount(self, max_exceptions)
                    ELSE Result("None", NoExc, self, FALSE, FALSE), FALSE, 0)
    /\ UNCHANGED <<config, exceptions_raised, exceptions, stuck_count, advanced,
                   pc, perwait, now, calls, waits, moves, ext, twin>>

Next ==
    \/ WaitStart
    \/ WaitCheck
    \/ WaitSleep
    \/ WaitReport
    \/ DirectCheck
    \/ DirectTooMany

Spec == Init /\ [][Next]_vars

\* ------------------------------------------------- wait() run to its end
\* the timeouts for which MaxCalls check() calls are enough to end every
\* one of MaxWaits wait() calls
LiveMaxTimeout ==
    IF MaxTimeout < (MaxCalls \div MaxWaits) - 1
    THEN MaxTimeout ELSE (MaxCalls \div MaxWaits) - 1

\* a waiter constructed with a timeout other than -1
LiveInit == Init /\ timeout >= 0 /\ timeout <= LiveMaxTimeout

LiveNext ==
    \/ WaitStart
    \/ WaitCheck
    \/ WaitSleep
    \/ WaitReport

\* every check(), every sleep() and every health report returns
LiveSpec ==
    /\ LiveInit /\ [][LiveNext]_vars
    /\ WF_vars(WaitCheck) /\ WF_vars(WaitSleep) /\ WF_vars(WaitReport)

\* ------------------------------------------- two wait() calls side by side
\* wait(frequency=f1) on this waiter and wait(frequency=f2) on its twin
TwinStart ==
    \E f1, f2 \in 1..MaxFrequency :
        /\ waits < MaxWaits
        /\ UNCHANGED ext
        /\ WaitStartWith(f1)
        /\ twin' = [pc |-> "check", frequency |-> f2, s |-> self,
                    now |-> now, start_time |-> now, outcome |-> NoExc,
                    nchecks |-> 0, nsleeps |-> 0, nlogs |-> 0, nreports |-> 0]

\* one iteration of both, with the same response after the same time
TwinCheck ==
    /\ twin.pc = "check"
    /\ calls < MaxCalls
    /\ UNCHANGED ext
    /\ \E r \in Responses(kind), d \in 0..MaxCheckTime :
         /\ WaitCheckWith(r, d)
         /\ LET it == Iteration(twin.s, twin.start_time, twin.frequency,
                                twin.outcome, r, twin.now + d)
            IN twin' = [twin EXCEPT !.s = it.res.s, !.now = @ + d,
                                    !.pc = it.pc, !.outcome = it.outcome,
                                    !.nchecks = @ + 1,
                                    !.nlogs = @ + (IF it.log THEN 1 ELSE 0)]

\* both sleep
TwinSleep ==
    /\ twin.pc = "sleep"
    /\ UNCHANGED ext
    /\ Sleep
    /\ twin' = [twin EXCEPT !.now = @ + pause, !.nsleeps = @ + 1, !.pc = "check"]

\* both fetch the health report and get the same
TwinReport ==
    /\ twin.pc = "report"
    /\ UNCHANGED ext
    /\ \E hr \in ReportResponses :
         /\ WaitReportWith(hr)
         /\ twin' = [twin EXCEPT !.outcome = Report(@, hr),
                                 !.nreports = @ + 1, !.pc = "done"]

TwinNext ==
    \/ TwinStart
    \/ TwinCheck
    \/ TwinSleep
    \/ TwinReport

TwinSpec == Init /\ [][TwinNext]_vars

\* --------------------------------------- a cluster whose state stays fixed
MaxFixedCalls == 6
MaxFixedWaits == 2

\* the cluster takes the state in which every check() gets the response r;
\* the user calls check() with max_stuck_count = msc
FixedSet ==
    /\ ext = NoExt
    /\ \E r \in Responses(kind), msc \in StuckCounts(kind) :
         ext' = [r |-> r, msc |-> msc]
    /\ UNCHANGED <<config, exceptions_raised, exceptions, stuck_count, advanced,
                   pc, perwait, now, last, calls, waits, moves, twin>>

FixedStart ==
    /\ ext # NoExt
    /\ waits < MaxFixedWaits
    /\ \E f \in 1..MaxFrequency : WaitStartWith(f)
    /\ UNCHANGED <<ext, twin>>

FixedWaitCheck ==
    /\ ext # NoExt
    /\ calls < MaxFixedCalls
    /\ \E d \in 0..MaxCheckTime : WaitCheckWith(ext.r, d)
    /\ UNCHANGED <<ext, twin>>

FixedDirectCheck ==
    /\ ext # NoExt
    /\ calls < MaxFixedCalls
    /\ DirectCheckWith(ext.r, ext.msc)
    /\ UNCHANGED <<ext, twin>>

FixedNext ==
    \/ FixedSet
    \/ FixedStart
    \/ FixedWaitCheck
    \/ WaitSleep
    \/ WaitReport
    \/ FixedDirectCheck

FixedSpec == Init /\ [][FixedNext]_vars

\* ------------------------------- check() and phase_stuck() of an IlmPhase
StuckInit == Init /\ kind = "IlmPhase"

\* check(max_stuck_count=msc); ext keeps the response it got
StuckCheck ==
    /\ calls < MaxCalls
    /\ \E r \in Responses(kind), msc \in StuckCounts(kind) :
         /\ DirectCheckWith(r, msc)
         /\ ext' = [r |-> r, msc |-> msc]
    /\ UNCHANGED twin

\* phase_stuck(max_stuck_count=msc) called by the user on a waiter that holds
\* explain data
StuckPhaseStuck ==
    /\ pc \in {"idle", "done"}
    /\ calls < MaxCalls
    /\ \E t \in {"explain", "explain_movefail"}, ph \in ExplainPhases,
          msc \in StuckCounts(kind) :
         LET r == Resp(t, ph, TRUE, <<>>)
             res == phase_stuck(self, msc, r)
         IN /\ Apply(res)
            /\ last' = Call("phase_stuck", self, res, FALSE, msc)
            /\ ext' = [r |-> r, msc |-> msc]
    /\ UNCHANGED <<config, pc, perwait, now, waits, twin>>

StuckNext ==
    \/ StuckCheck
    \/ StuckPhaseStuck

StuckSpec == StuckInit /\ [][StuckNext]_vars

TypeOK ==
    /\ exceptions_raised \in Nat
    /\ pc \in {"idle", "check", "sleep", "report", "done"}

\* ------------------------------------------------------------------- claims
\* wait() has ended
Ended == pc = "done" /\ waits > 0

\* C1: every wait() that ends returns normally (only after a check() that
\* returned True), or raises EsWaitTimeout (only if no check() returned True),
\* or raises EsWaitFatal; nothing else leaves wait().
C1_ThreeOutcomes ==
    Ended =>
        /\ outcome.type \in {"return", "EsWaitTimeout", "EsWaitFatal"}
        /\ (outcome.type = "return" => sawTrue)
        /\ (outcome.type = "EsWaitTimeout" => ~sawTrue)

\* C2: for timeout T >= 0 and pause p > 0, when no check() takes time, the
\* EsWaitTimeout of a wait() whose checks all returned False has
\* T <= elapsed < T + p and timeout = T.
C2_TimeoutBoundary ==
    (outcome.type = "EsWaitTimeout" /\ ~drift /\ timeout >= 0) =>
        /\ timeout <= outcome.elapsed
        /\ outcome.elapsed < timeout + pause
        /\ outcome.timeout = timeout

C2_Witness ==
    /\ Ended /\ outcome.type = "EsWaitTimeout" /\ ~drift
    /\ timeout > 0 /\ nsleeps >= 2 /\ outcome.elapsed > timeout

\* C3: when the first check() of a wait() returns True, wait() returns
\* normally after that one check() and without any sleep(), whatever pause and
\* timeout are.
C3_ImmediateSuccess ==
    (waits > 0 /\ nchecks = 1 /\ sawTrue) =>
        /\ pc = "done"
        /\ outcome.type = "return"
        /\ nsleeps = 0

C3_Witness ==
    /\ Ended /\ nchecks = 1 /\ sawTrue /\ outcome.type = "return"
    /\ timeout = 0 /\ pause = MaxPause

\* C4: check() is evaluated before the timeout test: a check() that returns
\* True when elapsed >= timeout makes wait() return normally, not raise
\* EsWaitTimeout.
C4_CheckBeforeTimeout ==
    (sawTrue /\ timeout # 0 - TicksPerSec /\ now - start_time >= timeout) =>
        /\ pc = "done"
        /\ outcome.type = "return"

C4_Witness ==
    /\ Ended /\ sawTrue /\ outcome.type = "return"
    /\ timeout > 0 /\ now - start_time >= timeout /\ nsleeps >= 1

\* C5: with timeout = -1 wait() never ends in EsWaitTimeout, however much time
\* elapses; it leaves the loop only because check() returned True or raised.
C5_NoTimeout ==
    (timeout = 0 - TicksPerSec) =>
        /\ outcome.type # "EsWaitTimeout"
        /\ pc # "report"
        /\ (Ended => (outcome.type = "return" /\ sawTrue)
                     \/ (outcome.type \notin {"return", "none"} /\ ~sawTrue
                         /\ nreports = 0))

C5_Witness ==
    /\ timeout = 0 - TicksPerSec /\ waits > 0
    /\ nsleeps >= 2 /\ now - start_time >= 2 * TicksPerSec
    /\ pc = "sleep"

C7_TooManyExceptions ==
    [][(last'.op = "too_many_exceptions") =>
         /\ (last'.ret = "raise") <=> (exceptions_raised >= max_exceptions)
         /\ (last'.ret = "raise") =>
              /\ last'.exc.type = "ExceptionCount"
              /\ last'.exc.count = exceptions_raised
              /\ last'.exc.errors = exceptions
              /\ last'.exc.msg.n = exceptions_raised
              /\ last'.exc.msg.allowed = max_exceptions
         /\ (last'.ret # "raise") => last'.exc.type = "none"
         /\ UNCHANGED <<exceptions_raised, exceptions, stuck_count, advanced>>]_vars

C7_Witness ==
    /\ last.op = "too_many_exceptions" /\ last.ret = "raise"
    /\ exceptions_raised = max_exceptions /\ max_exceptions = MaxExceptions
    /\ Len(exceptions) >= 1

\* C8 (as stated): with max_exceptions = k and a check() that records a failure
\* on every call, the k-th check() call itself raises ExceptionCount with
\* 'k exceptions raised out of k allowed'.
C8_Original ==
    (last.op = "check" /\ calls = max_exceptions
     /\ exceptions_raised = max_exceptions) =>
        /\ last.ret = "raise"
        /\ last.exc.type = "ExceptionCount"
        /\ last.exc.msg.n = max_exceptions
        /\ last.exc.msg.allowed = max_exceptions

\* C8 (amended): with max_exceptions = k and a check() that records a failure
\* on every call, the k-th check() call returns False; the (k+1)-th call
\* raises ExceptionCount with 'k exceptions raised out of k allowed' at its
\* initial too_many_exceptions(), before any remote call (Restore.check, which
\* does not call too_many_exceptions(), raises no ExceptionCount).
C8_FatalOnNextCheck ==
    /\ (last.op = "check" /\ calls = max_exceptions
        /\ exceptions_raised = max_exceptions) =>
           /\ last.ret = "False"
           /\ last.exc.type = "none"
    /\ (last.op = "check" /\ calls = max_exceptions + 1
        /\ last.entry_er = max_exceptions) =>
           IF kind = "Restore"
           THEN last.exc.type # "ExceptionCount"
           ELSE /\ last.ret = "raise"
                /\ last.exc.type = "ExceptionCount"
                /\ last.exc.count = max_exceptions
                /\ last.exc.msg.n = max_exceptions
                /\ last.exc.msg.allowed = max_exceptions
                /\ ~last.remote
                /\ exceptions_raised = max_exceptions

C8_Witness ==
    /\ kind = "Exists" /\ max_exceptions = MaxExceptions
    /\ last.op = "check" /\ calls = max_exceptions + 1
    /\ last.entry_er = max_exceptions
    /\ last.exc.type = "ExceptionCount"
    /\ Len(exceptions) = max_exceptions

MostRecentFirst(errs) ==
    \A i, j \in 1..Len(errs) : i < j => errs[i].seq > errs[j].seq

\* C10: the failure history is ordered most-recent-first, in the accumulator
\* and in the errors tuples of ExceptionCount and EsWaitFatal.
C10_MostRecentFirst ==
    /\ MostRecentFirst(exceptions)
    /\ MostRecentFirst(outcome.errors)
    /\ MostRecentFirst(last.exc.errors)

\* C11: after each completed check() call exceptions_raised equals the length
\* of the recorded failure history, and the history of an EsWaitFatal raised
\* for exhaustion has exactly exceptions_raised entries.
C11_CountIsHistoryLength ==
    /\ (last.op = "check") => (exceptions_raised = Len(exceptions))
    /\ (outcome.type = "EsWaitFatal" /\ outcome.msg.prefix = "") =>
           (Len(outcome.errors) = outcome.msg.n)

\* C12: when wait() has timed out with do_health_report set, whatever the
\* health report does, wait() raises the EsWaitTimeout it built before
\* fetching the report, with that elapsed time and timeout.
C12_ReportNeverMasksTimeout ==
    [][(pc = "report" /\ pc' = "done") =>
         /\ outcome'.type = "EsWaitTimeout"
         /\ outcome' = outcome]_vars

\* C13: client.health_report() is called only after wait() timed out and only
\* when do_health_report is True, once per timed-out wait(); never when
\* wait() returns or raises EsWaitFatal, nor when do_health_report is False.
C13_ReportOnlyOnTimeout ==
    /\ nreports <= 1
    /\ (pc = "report" \/ nreports = 1) =>
           /\ do_health_report
           /\ ~sawTrue
           /\ timeout # 0 - TicksPerSec
           /\ now - start_time >= timeout
           /\ outcome.type \notin {"none", "return", "EsWaitFatal"}
    /\ (Ended /\ outcome.type = "EsWaitTimeout") =>
           (nreports = IF do_health_report THEN 1 ELSE 0)
    /\ (Ended /\ outcome.type \in {"return", "EsWaitFatal"}) => (nreports = 0)
    /\ (~do_health_report) => (nreports = 0)

C13_Witness ==
    /\ Ended /\ outcome.type = "EsWaitTimeout" /\ do_health_report
    /\ nreports = 1 /\ nsleeps >= 1

\* C14: in every concrete waiter a check() whose remote call fails, or gives
\* a malformed response, catches the failure, records it in the accumulator
\* and returns False; the failure does not leave check().
C14_FailuresBecomeFalse ==
    [][(calls' = calls + 1 /\ last'.failed) =>
         /\ last'.ret = "False"
         /\ Len(exceptions') = Len(exceptions) + 1
         /\ exceptions_raised' = exceptions_raised + 1]_vars

\* C15: whenever check() raises inside wait(), wait() ends at once in an
\* EsWaitFatal that carries the elapsed time; every error that leaves wait()
\* is an EsWaitFatal or an EsWaitTimeout and carries the elapsed time.
C15_UnrecoverableIsFatal ==
    [][/\ (pc = "check" /\ nchecks' = nchecks + 1 /\ last'.ret = "raise") =>
              /\ pc' = "done"
              /\ outcome'.type = "EsWaitFatal"
              /\ outcome'.elapsed = now' - start_time
       /\ (pc # "done" /\ pc' = "done" /\ outcome'.type # "return") =>
              /\ outcome'.type \in {"EsWaitFatal", "EsWaitTimeout"}
              /\ outcome'.elapsed >= 0]_vars

\* C16: with timeout = -1, a wait() whose remote calls fail on every check()
\* makes at most max_exceptions + 1 check() calls: it does not poll on once
\* max_exceptions failures are counted, and it never returns normally.
C16_FailingWaitIsBounded ==
    (timeout = 0 - TicksPerSec /\ waits > 0 /\ allFailed) =>
        /\ nchecks <= max_exceptions + 1
        /\ (pc = "sleep") => (exceptions_raised <= max_exceptions)
        /\ outcome.type # "return"

\* C17: with timeout # -1 and pause > 0, when every check() returns and every
\* sleep advances the clock by pause, every wait() that was started ends (it
\* returns, or raises), whatever the check() calls give.
C17_WaitTerminates == (pc \in {"check", "sleep", "report"}) ~> (pc = "done")

C17_Witness ==
    /\ Ended /\ outcome.type = "EsWaitTimeout" /\ nreports = 0
    /\ timeout = LiveMaxTimeout /\ pause = 1
    /\ nchecks = timeout + 1 /\ nsleeps = timeout

LiveCallsSuffice == (pc = "check") => (calls < MaxCalls)

\* C18: once check() has raised ExceptionCount, another EsWaitException or
\* IlmWaitError inside wait(), that wait() is over: it raises EsWaitFatal in
\* the same iteration, and no further check() and no sleep happen in it.
C18_FatalIsTerminal ==
    [][/\ (pc = "check" /\ nchecks' = nchecks + 1
           /\ last'.exc.type \in {"ExceptionCount", "EsWaitException",
                                  "EsWaitFatal", "IlmWaitError"}) =>
              /\ pc' = "done"
              /\ outcome'.type = "EsWaitFatal"
              /\ nsleeps' = nsleeps
       /\ (pc = "done" /\ outcome.type = "EsWaitFatal" /\ waits' = waits) =>
              /\ pc' = "done"
              /\ outcome' = outcome
              /\ nchecks' = nchecks
              /\ nsleeps' = nsleeps]_vars

C18_Witness ==
    /\ Ended /\ outcome.type = "EsWaitFatal"
    /\ outcome.msg.prefix = "error_occurred"
    /\ last.op = "check" /\ last.exc.type = "IlmWaitError"
    /\ nsleeps >= 1 /\ timeout = 0 - TicksPerSec

\* C19: for log_frequency > 0, TimeTracker.should_log is True if and only if
\* the whole seconds elapsed are non-zero and a multiple of log_frequency; it
\* is False when elapsed is 0 (wait() writes its progress line exactly when
\* should_log is True on the way to the sleep).
C19_ShouldLog ==
    [][(pc = "check" /\ nchecks' = nchecks + 1 /\ pc' = "sleep") =>
         LET secs == (now' - start_time) \div TicksPerSec
         IN /\ frequency > 0
            /\ (nlogs' = nlogs + 1) <=> (secs # 0 /\ secs % frequency = 0)
            /\ (nlogs' = nlogs) <=> (secs = 0 \/ secs % frequency # 0)
            /\ (now' = start_time) => (nlogs' = nlogs)]_vars

C19_Witness ==
    /\ pc = "sleep" /\ frequency = MaxFrequency /\ nlogs = 1 /\ nchecks >= 3
    /\ (now - start_time) \div TicksPerSec = MaxFrequency

\* C20: two wait() calls that differ only in the frequency argument and get
\* the same check() responses at the same clock values make the same number
\* of check() and sleep() calls and end in the same outcome; only the
\* progress lines differ.
C20_FrequencyIsObservational ==
    (twin.pc # "none") =>
        /\ twin.pc = pc
        /\ twin.nchecks = nchecks
        /\ twin.nsleeps = nsleeps
        /\ twin.nreports = nreports
        /\ twin.outcome = outcome
        /\ twin.now = now
        /\ twin.s = self

C20_Witness ==
    /\ Ended /\ twin.pc = "done"
    /\ twin.frequency # frequency /\ twin.nlogs # nlogs
    /\ nsleeps >= 2 /\ nchecks >= 3

C22_Original ==
    [][(calls' = calls + 1 /\ kind = "IlmPhase") =>
         /\ moves' <= 1
         /\ (moves' # moves) =>
                (stuck_count >= last'.msc /\ last'.ret = "False")
         /\ (stuck_count >= last'.msc /\ moves = 0) =>
                (moves' = 1 /\ last'.ret = "False")]_vars

\* C22 (amended): move_to_step is issued only by a check() of an IlmPhase
\* waiter that starts with stuck_count >= max_stuck_count, advanced False and
\* exceptions_raised < max_exceptions and that gets explain data with a phase;
\* if the call succeeds that check() sets advanced, resets stuck_count and
\* returns False, and no later check() issues it again, so the advance
\* succeeds at most once; if the call raises, its error leaves check(),
\* advanced stays False and a later check() issues it again.
C22_AdvanceOnce ==
    [][(calls' = calls + 1) =>
         /\ (moves' # moves) =>
                /\ kind = "IlmPhase"
                /\ moves' = moves + 1
                /\ stuck_count >= last'.msc
                /\ ~advanced
                /\ exceptions_raised < max_exceptions
                /\ \/ last'.ret = "False" /\ advanced' /\ stuck_count' = 0
                   \/ /\ last'.ret = "raise" /\ last'.exc.type = "ApiError"
                      /\ ~advanced' /\ stuck_count' = stuck_count
         /\ advanced => (advanced' /\ moves' = moves)
         /\ (advanced' /\ ~advanced) => (moves' = moves + 1)
         /\ (kind = "IlmPhase" /\ stuck_count >= last'.msc /\ ~advanced
             /\ exceptions_raised < max_exceptions) =>
                \/ moves' = moves + 1
                \/ exceptions_raised' = exceptions_raised + 1
                \/ last'.exc.type \in {"NotFoundError", "IlmWaitError", "KeyError"}]_vars

C22_Witness ==
    /\ kind = "IlmPhase" /\ advanced /\ moves = 1
    /\ last.op = "check" /\ last.moved /\ last.ret = "False"
    /\ last.msc = MaxStuckCount /\ nchecks = MaxStuckCount + 1 /\ pc = "sleep"

\* C23: when an IlmPhase waiter that has advanced the phase has
\* stuck_count >= max_stuck_count again, the next check() that gets as far as
\* phase_stuck() raises IlmWaitError and issues no move_to_step; inside wait()
\* that iteration raises EsWaitFatal with the elapsed time, without a sleep.
C23_StillStuckIsFatal ==
    [][(calls' = calls + 1 /\ kind = "IlmPhase" /\ advanced
        /\ stuck_count >= last'.msc /\ exceptions_raised < max_exceptions
        /\ ext.r.t \in {"explain", "explain_movefail"}) =>
         /\ last'.ret = "raise"
         /\ last'.exc.type = "IlmWaitError"
         /\ moves' = moves
         /\ (pc = "check") =>
                /\ pc' = "done"
                /\ outcome'.type = "EsWaitFatal"
                /\ outcome'.elapsed = now' - start_time
                /\ nsleeps' = nsleeps]_vars

C23_Witness ==
    /\ Ended /\ outcome.type = "EsWaitFatal" /\ kind = "IlmPhase"
    /\ advanced /\ moves = 1 /\ stuck_count = MaxStuckCount
    /\ last.op = "check" /\ last.msc = MaxStuckCount
    /\ last.exc.type = "IlmWaitError"
    /\ timeout = 0 - TicksPerSec /\ nsleeps = MaxStuckCount

\* the rank of a phase name: undef 0 < new 1 < hot 2 < warm 3 < cold 4 <
\* frozen 5 < delete 6, any other name 0
Rank(ph) ==
    LET order == <<"new", "hot", "warm", "cold", "frozen", "delete">>
    IN IF \E i \in 1..6 : order[i] = ph
       THEN CHOOSE i \in 1..6 : order[i] = ph
       ELSE 0

PhaseNames == {"undef", "new", "hot", "warm", "cold", "frozen", "delete",
               "bogus", ""}

\* C24: when the explain data has a phase and the waiter is not stuck (and
\* below the exception limit), IlmPhase.check() returns True if and only if
\* the rank of the current phase is greater than or equal to the rank of the
\* target phase; phase_gte compares by that rank for all phase names.
C24_ReachedIffRank ==
    /\ [](\A a, b \in PhaseNames :
            /\ phase_gte(a, b) <=> (Rank(a) >= Rank(b))
            /\ phase_lt(a, b) <=> (Rank(a) < Rank(b)))
    /\ [][(calls' = calls + 1 /\ kind = "IlmPhase"
           /\ ext.r.t \in {"explain", "explain_movefail"}
           /\ exceptions_raised < max_exceptions
           /\ stuck_count < last'.msc) =>
            /\ last'.ret \in {"True", "False"}
            /\ (last'.ret = "True") <=> (Rank(ext.r.phase) >= Rank(phase))]_vars

C24_Witness ==
    /\ kind = "IlmPhase" /\ phase = "warm"
    /\ ext.r.t = "explain" /\ ext.r.phase = "warm" /\ ~ext.r.complete
    /\ last.op = "check" /\ last.ret = "True" /\ calls >= 2

C27_RestoreAllDone ==
    (kind = "Restore" /\ last.op = "check") =>
        /\ (last.ret = "True") =>
               (\A i \in 1..Len(ext.r.chunks) : ext.r.chunks[i] = "DONE")
        /\ (/\ \A i \in 1..Len(ext.r.chunks) :
                  ext.r.chunks[i] \in {"DONE", "INIT", "missing", "empty"}
            /\ \E i \in 1..Len(ext.r.chunks) :
                  ext.r.chunks[i] \in {"INIT", "empty"}) =>
               (last.ret = "False")

\* C28: sleep(pause) happens only after a check() that returned False, in an
\* iteration in which the timeout was not reached; the iteration that ends
\* wait() (success, timeout, fatal) is followed by no sleep.
C28_SleepOnlyAfterFalse ==
    [][/\ (pc' = "sleep") =>
              /\ last'.op = "check" /\ last'.ret = "False"
              /\ ~sawTrue' /\ outcome'.type = "none"
              /\ (timeout = 0 - TicksPerSec) \/ (now' - start_time < timeout)
       /\ (nsleeps' # nsleeps /\ waits' = waits) =>
              /\ nsleeps' = nsleeps + 1
              /\ pc = "sleep"
              /\ last.op = "check" /\ last.ret = "False"
              /\ (timeout = 0 - TicksPerSec) \/ (now - start_time < timeout)
       /\ (pc \in {"done", "report"} /\ waits' = waits) =>
              (nsleeps' = nsleeps /\ pc' # "sleep")]_vars

C28_Witness ==
    /\ pc = "check" /\ nsleeps = 2 /\ nchecks = 2
    /\ timeout = MaxTimeout /\ pause = 1
    /\ last.op = "check" /\ last.ret = "False"

\* the remote call of every check() fails with an error that check() catches
\* and records
FailsRecorded ==
    \/ kind \in {"Exists", "Health", "Relocate"} /\ ext.r.t = "TransportError"
    \/ kind = "Relocate" /\ ext.r.t \in {"KeyErrorTable", "KeyErrorState"}
    \/ kind \in {"Task", "Snapshot"} /\ ext.r.t = "Exception"

C30_TooManyFirst ==
    [][(calls' = calls + 1 /\ exceptions_raised >= max_exceptions) =>
         /\ last'.ret = "raise"
         /\ last'.exc.type = "ExceptionCount"
         /\ ~last'.remote
         /\ UNCHANGED <<exceptions_raised, exceptions>>]_vars

\* the query that check() issues fails (for Restore: the recovery query of
\* the first index, the one check() looks at first)
QueryFails ==
    IF kind = "Restore"
    THEN ext.r.chunks[1] \in {"TransportError", "empty"}
    ELSE Failed(kind, ext.r)

C32_OneLogPerWindow ==
    (waits > 0) =>
        nlogs * frequency <= (now - start_time) \div TicksPerSec

\* C33: a wait() that looks at should_log once per whole second (pause of one
\* second, check() taking no time) has, after the look at N seconds, found it
\* True N \div frequency times: at every multiple of frequency but not at 0.
C33_LogCount ==
    (waits > 0 /\ ~drift /\ pause = TicksPerSec /\ pc = "sleep") =>
        nlogs = ((now - start_time) \div TicksPerSec) \div frequency

\* three seconds observed with frequency 2: one line, at 2 s
C33_Witness ==
    /\ waits > 0 /\ ~drift /\ pause = TicksPerSec /\ pc = "sleep"
    /\ frequency = 2
    /\ now - start_time = 3 * TicksPerSec
    /\ nchecks = 4
    /\ nlogs = 1

\* C34: the steps of wait() other than its check() calls leave
\* exceptions_raised and the failure history alone, entering wait() included,
\* so failures of an earlier wait() on the instance still count; the elapsed
\* time is 0 at the entry of each wait() and never decreases within a call.
C34_WaitKeepsFailures ==
    [][/\ (calls' = calls) => UNCHANGED <<exceptions_raised, exceptions>>
       /\ (waits' = waits + 1) =>
            /\ now' - start_time' = 0
            /\ UNCHANGED <<exceptions_raised, exceptions>>
       /\ (waits' = waits) =>
            now' - start_time' >= now - start_time]_vars

\* a second wait() that ends in EsWaitFatal after a single failure of its own:
\* the other failure that max_exceptions = 2 asks for is the first wait()'s
C34_Witness ==
    /\ Ended
    /\ waits = 2
    /\ calls = 3
    /\ nchecks = 2
    /\ max_exceptions = 2
    /\ exceptions_raised = 2
    /\ outcome.type = "EsWaitFatal"

\* C35: a phase_stuck() call that triggers the manual advance (stuck_count >=
\* max_stuck_count, not yet advanced, move_to_step accepted) sets advanced,
\* resets stuck_count and exceptions_raised to 0 in that step and returns
\* True; a call with stuck_count < max_stuck_count returns False and changes
\* no state.
C35_PhaseStuck ==
    [][(calls' = calls + 1 /\ last'.op = "phase_stuck") =>
         /\ (stuck_count >= last'.msc /\ ~advanced /\ ext'.r.t = "explain") =>
              /\ last'.ret = "True"
              /\ moves' = moves + 1
              /\ advanced'
              /\ stuck_count' = 0
              /\ exceptions_raised' = 0
         /\ (last'.ret = "True") =>
              (stuck_count >= last'.msc /\ ~advanced /\ last'.moved)
         /\ (stuck_count < last'.msc) =>
              /\ last'.ret = "False"
              /\ UNCHANGED <<exceptions_raised, exceptions, stuck_count,
                             advanced, moves>>]_vars

\* phase_stuck() advanced a waiter that had counted a failure
C35_Witness ==
    /\ last.op = "phase_stuck"
    /\ last.ret = "True"
    /\ last.entry_er = 1
    /\ exceptions_raised = 0
    /\ stuck_count = 0
    /\ advanced
    /\ moves = 1

\* phase_stuck() below max_stuck_count
C35_WitnessBelow ==
    /\ last.op = "phase_stuck"
    /\ last.ret = "False"
    /\ last.msc = MaxStuckCount
    /\ stuck_count = 2
    /\ exceptions_raised = 1
    /\ ~advanced

\* C36: at every point of a wait() the sleeps performed number as many as
\* the check() calls made or one less, and a wait() that has left its loop,
\* with whatever outcome, has slept once less than it has called check().
C36_SleepsVsChecks ==
    (waits > 0) =>
        /\ nsleeps \in {nchecks, nchecks - 1}
        /\ (pc \in {"report", "done"}) => (nsleeps = nchecks - 1)

\* a wait() that timed out after three checks and two sleeps
C36_Witness ==
    /\ Ended
    /\ outcome.type = "EsWaitTimeout"
    /\ nchecks = 3
    /\ nsleeps = 2

\* C37: only the timeout -1 disables the timeout test: under any other
\* negative timeout the first check() that returns False ends wait() with
\* EsWaitTimeout, after that one check() and no sleep; under -1 it sleeps.
C37_OnlyMinusOneDisables ==
    [][(pc = "check" /\ nchecks' = nchecks + 1 /\ last'.ret = "False"
        /\ timeout < 0) =>
         IF timeout = 0 - TicksPerSec
         THEN pc' = "sleep" /\ outcome'.type = "none"
         ELSE /\ pc' \in {"report", "done"}
              /\ outcome'.type = "EsWaitTimeout"
              /\ outcome'.timeout = timeout
              /\ nchecks' = 1
              /\ nsleeps' = 0]_vars

\* a wait() with a negative timeout other than -1 second that timed out at
\* its first check
C37_Witness ==
    /\ Ended
    /\ timeout < 0 /\ timeout # 0 - TicksPerSec
    /\ outcome.type = "EsWaitTimeout"
    /\ nchecks = 1
    /\ nsleeps = 0
    /\ last.op = "check" /\ last.ret = "False"

\* C38: when check() raises ExceptionCount, or another error derived from
\* EsWaitException, in an iteration whose elapsed time has reached the
\* timeout, wait() raises EsWaitFatal, not EsWaitTimeout, and fetches no
\* health report.
C38_FatalBeforeTimeout ==
    [][(pc = "check" /\ nchecks' = nchecks + 1 /\ last'.ret = "raise"
        /\ last'.exc.type \in {"ExceptionCount", "EsWaitException",
                               "EsWaitFatal", "IlmWaitError"}
        /\ timeout # 0 - TicksPerSec
        /\ now' - start_time >= timeout) =>
         /\ outcome'.type = "EsWaitFatal"
         /\ pc' = "done"
         /\ nreports' = 0]_vars

\* a Health wait() with the health report on, ended by ExceptionCount past
\* its timeout
C38_Witness ==
    /\ Ended
    /\ do_health_report
    /\ timeout > 0
    /\ now - start_time >= timeout
    /\ last.op = "check" /\ last.exc.type = "ExceptionCount"
    /\ outcome.type = "EsWaitFatal"
    /\ nreports = 0

\* the explain data r show the current phase complete and below the target
CompleteBelowTarget(r) ==
    /\ r.t \in {"explain", "explain_movefail"}
    /\ r.complete
    /\ Rank(r.phase) < Rank(phase)

\* C39 as stated: every check() that observes 'current phase complete but
\* below target' increments stuck_count by exactly 1, the check() that makes
\* the manual advance aside.
C39_Original ==
    [][(calls' = calls + 1 /\ last'.op = "check"
        /\ exceptions_raised < max_exceptions
        /\ CompleteBelowTarget(ext'.r)) =>
         \/ stuck_count' = stuck_count + 1
         \/ last'.moved /\ advanced' /\ stuck_count' = 0]_vars

\* C39: stuck_count is cumulative: a check() that gets past
\* too_many_exceptions() and phase_stuck() (stuck_count < max_stuck_count) and
\* observes 'current phase complete but below target' increments it by
\* exactly 1; nothing else increments it; and only the manual advance lowers
\* it, to 0: a check() that observes anything else leaves it as it is.
C39_Cumulative ==
    [][/\ (calls' = calls + 1 /\ last'.op = "check") =>
            /\ (/\ exceptions_raised < max_exceptions
                /\ stuck_count < last'.msc
                /\ CompleteBelowTarget(ext'.r)) =>
                 stuck_count' = stuck_count + 1
            /\ (stuck_count' > stuck_count) =>
                 /\ stuck_count' = stuck_count + 1
                 /\ CompleteBelowTarget(ext'.r)
       /\ (stuck_count' < stuck_count) =>
            /\ stuck_count' = 0
            /\ last'.moved
            /\ moves' = moves + 1
            /\ advanced' /\ ~advanced]_vars

\* two counted observations and then a check() that saw the next phase, not
\* complete: stuck_count is still 2
C39_Witness ==
    /\ calls = 3
    /\ last.op = "check"
    /\ last.ret = "False"
    /\ ext.r.t = "explain" /\ ext.r.phase = "hot" /\ ~ext.r.complete
    /\ stuck_count = 2
    /\ ~advanced

====
